---------------------------- MODULE Spec2Model ----------------------------
(***************************************************************************)
(* A state-machine model of the recipe API: the user store and token       *)
(* gateway (core/models.py, user/serializer.py), the owner-scoped tag /    *)
(* ingredient / recipe viewsets (recipe/views.py), and wait_for_db.        *)
(*                                                                         *)
(* Strings are sequences of one-character strings, so that splitting,      *)
(* lower-casing and comparing are computed and not assumed.                *)
(***************************************************************************)
EXTENDS Integers, Sequences, FiniteSets, TLC

VARIABLES
    users,        \* User table: sequence of rows, the row's index is its id
    tokens,       \* ids of the users for whom a Token row exists
    tags,         \* Tag table: sequence of rows [name, user]
    ingredients,  \* Ingredient table: sequence of rows [name, user]
    recipes,      \* Recipe table: function id -> row, ids are never reused
    recipeSeq,    \* last id handed out by the Recipe table's sequence
    response,     \* the last request together with the response it got
    pc,           \* wait_for_db: the statement of handle() that runs next
    db_conn,      \* wait_for_db: the local db_conn
    stdout,       \* wait_for_db: the lines written to stdout
    attempts,     \* wait_for_db: the outcome of every evaluation of line 16
    reachable     \* whether the database accepts connections

db      == <<users, tokens, tags, ingredients, recipes, recipeSeq>>
command == <<pc, db_conn, stdout, attempts, reachable>>
vars    == <<users, tokens, tags, ingredients, recipes, recipeSeq, response,
             pc, db_conn, stdout, attempts, reachable>>

----------------------------------------------------------------------------
(* Bounds of the model *)

\* accounts
MaxUsers == 2
\* rows of the Tag table
MaxTags == 2
\* rows of the Ingredient table
MaxIngredients == 1
\* recipes ever created, where recipes are also updated and deleted
MaxRecipes == 1
\* recipes ever created, where recipes are only created and listed
MaxListed == 2
\* failed attempts of the startup command to reach the database
MaxAttempts == 12

----------------------------------------------------------------------------
(* Strings *)

\* Python's None for an absent query parameter or payload field
None == <<"None">>

\* str.lower() on one character of the model's alphabet
LowerChar(c) ==
    CASE c = "U" -> "u"
      [] c = "X" -> "x"
      [] c = "C" -> "c"
      [] OTHER   -> c

Lower(s) == [i \in 1..Len(s) |-> LowerChar(s[i])]

\* index of the last occurrence of c in s, 0 when there is none (str.rsplit(c, 1))
LastIndexOf(s, c) ==
    LET hits == {i \in 1..Len(s) : s[i] = c}
    IN  IF hits = {} THEN 0 ELSE CHOOSE i \in hits : \A j \in hits : j <= i

\* a normalization that leaves the email as it was given
normalize_email_AsGiven(email) == email

\* BaseUserManager.normalize_email: lower-case what follows the last '@';
\* a string without '@' (rsplit raises ValueError) is returned as it is
normalize_email(email) ==
    LET at == LastIndexOf(email, "@")
    IN  IF at = 0 THEN email
        ELSE SubSeq(email, 1, at) \o Lower(SubSeq(email, at + 1, Len(email)))

\* make_password: the stored value carries the hasher's prefix and is never
\* the raw password itself
make_password(raw) == <<"pbkdf2$">> \o raw

check_password(raw, stored) == stored = make_password(raw)

----------------------------------------------------------------------------
(* The user store: core/models.py *)

\* the row create_user builds: User(email=normalize_email(email), **extra)
\* followed by set_password(password)
NewUser(email, password, name) ==
    [email        |-> normalize_email(email),
     password     |-> make_password(password),
     name         |-> name,
     is_active    |-> TRUE,
     is_staff     |-> FALSE,
     is_superuser |-> FALSE]

\* the unique=True constraint on User.email, as the database compares it
EmailTaken(email) == \E i \in 1..Len(users) : users[i].email = email

\* get_by_natural_key: exact match on USERNAME_FIELD; 0 when there is no row
UserByEmail(email) ==
    IF \E i \in 1..Len(users) : users[i].email = email
    THEN CHOOSE i \in 1..Len(users) : users[i].email = email
    ELSE 0

\* a create_user without the check of lines 14-15
create_user_outcome_AnyEmail(email, password) ==
    IF EmailTaken(normalize_email(email)) THEN "IntegrityError" ELSE "ok"

\* UserManager.create_user seen as a function of the table: "ValueError" for
\* an empty email, "IntegrityError" when the normalized email is taken,
\* otherwise "ok" and the row is appended by the caller
create_user_outcome(email, password) ==
    IF email = <<>> THEN "ValueError"
    ELSE IF EmailTaken(normalize_email(email)) THEN "IntegrityError"
    ELSE "ok"

\* django.contrib.auth.authenticate with the ModelBackend: the id of the
\* active user whose email is exactly `username` and whose password checks,
\* 0 (None) otherwise
authenticate(username, password) ==
    LET u == UserByEmail(username)
    IN  IF u # 0 /\ check_password(password, users[u].password)
                 /\ users[u].is_active
        THEN u ELSE 0

----------------------------------------------------------------------------
(* Requests and responses *)

NoQuery   == [x \in {} |-> None]
NoPayload == [x \in {} |-> None]

\* the value of a query parameter or payload field, None when it is absent
Get(d, f) == IF f \in DOMAIN d THEN d[f] ELSE None

\* a gate that takes any user's id for a token
IsAuthenticated_AnyUser(tok) == tok \in 1..Len(users)

\* TokenAuthentication + IsAuthenticated: the bearer token names a Token row
\* of an active user.  Token 0 stands for a request without the header.
IsAuthenticated(tok) ==
    tok \in tokens /\ tok \in 1..Len(users) /\ users[tok].is_active

\* the request as the framework hands it to a view (route, method, bearer
\* token, pk, query string, payload) with the response it is answered
Reply(endpoint, method, tok, pk, query, payload, status, body) ==
    [endpoint |-> endpoint, method |-> method, pk |-> pk,
     tok |-> tok, query |-> query, payload |-> payload,
     status |-> status, body |-> body]

ErrorBody(field, code) == [kind |-> "error", field |-> field, code |-> code]
EmptyBody == [kind |-> "empty"]

\* APIView.initial refuses the request before the handler is looked up:
\* NotAuthenticated without the header, AuthenticationFailed for a key that
\* names no Token row, both 401
NotAuthenticated(endpoint, method, tok, pk, query, payload) ==
    /\ response' = Reply(endpoint, method, tok, pk, query, payload, 401,
                         ErrorBody("detail", IF tok = 0 THEN "not_authenticated"
                                                        ELSE "authentication_failed"))
    /\ UNCHANGED db

----------------------------------------------------------------------------
(* User endpoints: user/serializer.py behind /user/create/, /user/token/   *)
(* and /user/me/                                                           *)

MinPasswordLength == 8

\* EmailField's validator, as far as the model's alphabet can tell: one '@'
\* with something on each side of it
IsEmail(s) ==
    LET at == LastIndexOf(s, "@")
    IN  /\ at > 1 /\ at < Len(s)
        /\ \A i \in 1..Len(s) : s[i] = "@" => i = at

\* UserSerializer.is_valid for a create: the first failing field and its
\* error code, or <<>> when the payload is valid
UserSerializerErrors(payload, instance) ==
    LET email    == Get(payload, "email")
        password == Get(payload, "password")
        name     == Get(payload, "name")
        partial  == instance # 0
        clash(e) == \E i \in 1..Len(users) : i # instance /\ users[i].email = e
    IN  IF email = None /\ ~partial THEN <<"email", "required">>
        ELSE IF email = <<>> THEN <<"email", "blank">>
        ELSE IF email # None /\ ~IsEmail(email) THEN <<"email", "invalid">>
        ELSE IF email # None /\ clash(email) THEN <<"email", "unique">>
        ELSE IF password = None /\ ~partial THEN <<"password", "required">>
        ELSE IF password = <<>> THEN <<"password", "blank">>
        ELSE IF password # None /\ Len(password) < MinPasswordLength
             THEN <<"password", "min_length">>
        ELSE IF name = None /\ ~partial THEN <<"name", "required">>
        ELSE IF name = <<>> THEN <<"name", "blank">>
        ELSE <<>>

\* the representation UserSerializer returns: password is write_only
UserBody(u) == [kind |-> "user", email |-> u.email, name |-> u.name]

\* POST /user/create/ : UserSerializer.create -> create_user(**validated_data)
CreateUser(payload) ==
    LET errs == UserSerializerErrors(payload, 0)
        out  == create_user_outcome(payload.email, payload.password)
        row  == NewUser(payload.email, payload.password, payload.name)
    IN  /\ UNCHANGED <<tokens, tags, ingredients, recipes, recipeSeq>>
        /\ IF errs # <<>>
           THEN /\ response' = Reply("user-create", "POST", 0, 0, NoQuery, payload,
                                     400, ErrorBody(errs[1], errs[2]))
                /\ UNCHANGED users
           ELSE IF out # "ok"
           THEN /\ response' = Reply("user-create", "POST", 0, 0, NoQuery, payload,
                                     500, ErrorBody("exception", out))
                /\ UNCHANGED users
           ELSE /\ users' = Append(users, row)
                /\ response' = Reply("user-create", "POST", 0, 0, NoQuery, payload,
                                     201, UserBody(row))

\* UserManager.create_user called directly (management shell, fixtures):
\* an exception leaves the table as it was
CreateUserDirect(email, password, name) ==
    LET out  == create_user_outcome(email, password)
        args == [email |-> email, password |-> password, name |-> name]
    IN  /\ UNCHANGED <<tokens, tags, ingredients, recipes, recipeSeq>>
        /\ IF out # "ok"
           THEN /\ response' = Reply("create_user", "call", 0, 0, NoQuery, args,
                                     500, ErrorBody("exception", out))
                /\ UNCHANGED users
           ELSE /\ users' = Append(users, NewUser(email, password, name))
                /\ response' = Reply("create_user", "call", 0, 0, NoQuery, args,
                                     0, EmptyBody)

\* UserManager.create_superuser: create_user, then the two flags, then save
CreateSuperuser(email, password) ==
    LET out  == create_user_outcome(email, password)
        args == [email |-> email, password |-> password]
    IN  /\ UNCHANGED <<tokens, tags, ingredients, recipes, recipeSeq>>
        /\ IF out # "ok"
           THEN /\ response' = Reply("create_superuser", "call", 0, 0, NoQuery, args,
                                     500, ErrorBody("exception", out))
                /\ UNCHANGED users
           ELSE /\ users' = Append(users,
                       [NewUser(email, password, <<>>) EXCEPT
                            !.is_staff = TRUE, !.is_superuser = TRUE])
                /\ response' = Reply("create_superuser", "call", 0, 0, NoQuery, args,
                                     0, EmptyBody)

\* a serializer that tells an unknown email from a wrong password
AuthTokenSerializerErrors_Revealing(payload) ==
    LET email    == Get(payload, "email")
        password == Get(payload, "password")
    IN  IF email = None THEN <<"email", "required">>
        ELSE IF email = <<>> THEN <<"email", "blank">>
        ELSE IF password = None THEN <<"password", "required">>
        ELSE IF password = <<>> THEN <<"password", "blank">>
        ELSE IF UserByEmail(email) = 0 THEN <<"email", "unknown">>
        ELSE IF authenticate(email, password) = 0
             THEN <<"non_field_errors", "authentication">>
        ELSE <<>>

\* AuthTokenSerializer: both fields are required, non-blank CharFields;
\* validate() then asks authenticate() and raises code 'authentication'
AuthTokenSerializerErrors(payload) ==
    LET email    == Get(payload, "email")
        password == Get(payload, "password")
    IN  IF email = None THEN <<"email", "required">>
        ELSE IF email = <<>> THEN <<"email", "blank">>
        ELSE IF password = None THEN <<"password", "required">>
        ELSE IF password = <<>> THEN <<"password", "blank">>
        ELSE IF authenticate(email, password) = 0
             THEN <<"non_field_errors", "authentication">>
        ELSE <<>>

\* POST /user/token/ : on success Token.objects.get_or_create(user=user)
CreateToken(payload) ==
    LET errs == AuthTokenSerializerErrors(payload)
        u    == authenticate(payload.email, payload.password)
    IN  /\ UNCHANGED <<users, tags, ingredients, recipes, recipeSeq>>
        /\ IF errs # <<>>
           THEN /\ response' = Reply("user-token", "POST", 0, 0, NoQuery, payload,
                                     400, ErrorBody(errs[1], errs[2]))
                /\ UNCHANGED tokens
           ELSE /\ tokens' = tokens \cup {u}
                /\ response' = Reply("user-token", "POST", 0, 0, NoQuery, payload,
                                     200, [kind |-> "token", token |-> u])

\* ModelSerializer.update, which UserSerializer does not override: every
\* validated field is assigned to the instance as it came, then saved
UserSerializerUpdate(u, payload) ==
    [f \in DOMAIN u |-> IF f \in DOMAIN payload THEN payload[f] ELSE u[f]]

\* /user/me/ : GET and PATCH on the authenticated user, anything else 405
ManageUser(method, tok, payload) ==
    LET errs == UserSerializerErrors(payload, tok)
    IN  /\ UNCHANGED <<tokens, tags, ingredients, recipes, recipeSeq>>
        /\ IF ~IsAuthenticated(tok)
           THEN NotAuthenticated("user-me", method, tok, 0, NoQuery, payload)
           ELSE IF method = "GET"
           THEN /\ response' = Reply("user-me", method, tok, 0, NoQuery, payload,
                                     200, UserBody(users[tok]))
                /\ UNCHANGED users
           ELSE IF method = "PATCH"
           THEN IF errs # <<>>
                THEN /\ response' = Reply("user-me", method, tok, 0, NoQuery, payload,
                                          400, ErrorBody(errs[1], errs[2]))
                     /\ UNCHANGED users
                ELSE /\ users' = [users EXCEPT
                                     ![tok] = UserSerializerUpdate(users[tok], payload)]
                     /\ response' = Reply("user-me", method, tok, 0, NoQuery, payload,
                                          200, UserBody(users'[tok]))
           ELSE /\ response' = Reply("user-me", method, tok, 0, NoQuery, payload,
                                     405, ErrorBody("detail", "method_not_allowed"))
                /\ UNCHANGED users

----------------------------------------------------------------------------
(* Tags and ingredients: BaseRecipeViewSet, recipe/views.py                *)

\* code points, as far as the model's alphabet goes
Alphabet == <<"$", ",", "0", "1", "2", "3", "@", "C", "U", "X",
              "a", "b", "c", "p", "u", "v", "w", "x">>

CharCode(c) == CHOOSE i \in 1..Len(Alphabet) : Alphabet[i] = c

\* s < t in the lexicographic order of strings
RECURSIVE StrLess(_, _)
StrLess(s, t) ==
    IF t = <<>> THEN FALSE
    ELSE IF s = <<>> THEN TRUE
    ELSE IF Head(s) # Head(t) THEN CharCode(Head(s)) < CharCode(Head(t))
    ELSE StrLess(Tail(s), Tail(t))

\* the sequences without repetition over a set of ids
Orderings(S) ==
    {f \in [1..Cardinality(S) -> S] : \A i, j \in DOMAIN f : i # j => f[i] # f[j]}

\* queryset.filter(user=request.user).order_by('-name') over a table: every
\* order of the caller's rows in which no row precedes one of a greater name
\* (rows of equal name come in the order the database picks)
OwnedByName(table, user) ==
    LET ids == {i \in 1..Len(table) : table[i].user = user}
    IN  {f \in Orderings(ids) :
            \A i, j \in DOMAIN f : i < j => ~StrLess(table[f[i]].name, table[f[j]].name)}

\* the name field of TagSerializer / IngredientSerializer: required, not blank
NameErrors(payload) ==
    IF Get(payload, "name") = None THEN <<"name", "required">>
    ELSE IF payload.name = <<>> THEN <<"name", "blank">>
    ELSE <<>>

\* perform_create: serializer.save(user=request.user); the keyword overrides
\* whatever the validated data holds
perform_create(validated, user) == [validated EXCEPT !.user = user]

\* GET on a list route of BaseRecipeViewSet; `table` is the model's queryset
BaseList(endpoint, table, tok, query) ==
    /\ UNCHANGED db
    /\ IF ~IsAuthenticated(tok)
       THEN NotAuthenticated(endpoint, "GET", tok, 0, query, NoPayload)
       ELSE \E rows \in OwnedByName(table, tok) :
                response' = Reply(endpoint, "GET", tok, 0, query, NoPayload,
                                  200, [kind |-> "list", rows |-> rows])

\* what POST on a list route of BaseRecipeViewSet answers and appends
BaseCreateRow(payload, tok) ==
    perform_create([name |-> payload.name, user |-> 0], tok)

\* a method the viewset has no mixin for
BaseOther(endpoint, method, tok) ==
    /\ UNCHANGED db
    /\ IF ~IsAuthenticated(tok)
       THEN NotAuthenticated(endpoint, method, tok, 0, NoQuery, NoPayload)
       ELSE response' = Reply(endpoint, method, tok, 0, NoQuery, NoPayload,
                              405, ErrorBody("detail", "method_not_allowed"))

TagList(tok, query) == BaseList("tag-list", tags, tok, query)

TagCreate(tok, payload) ==
    LET errs == NameErrors(payload)
    IN  /\ UNCHANGED <<users, tokens, ingredients, recipes, recipeSeq>>
        /\ IF ~IsAuthenticated(tok)
           THEN NotAuthenticated("tag-list", "POST", tok, 0, NoQuery, payload)
           ELSE IF errs # <<>>
           THEN /\ response' = Reply("tag-list", "POST", tok, 0, NoQuery, payload,
                                     400, ErrorBody(errs[1], errs[2]))
                /\ UNCHANGED tags
           ELSE /\ tags' = Append(tags, BaseCreateRow(payload, tok))
                /\ response' = Reply("tag-list", "POST", tok, 0, NoQuery, payload,
                                     201, [kind |-> "tag", id |-> Len(tags) + 1,
                                           name |-> payload.name])

\* a tag viewset that also brings DestroyModelMixin
TagOther_Destroy(method, tok) ==
    IF method = "DELETE" /\ IsAuthenticated(tok) /\ Len(tags) > 0
    THEN /\ tags' = SubSeq(tags, 1, Len(tags) - 1)
         /\ response' = Reply("tag-list", method, tok, 0, NoQuery, NoPayload,
                              204, EmptyBody)
         /\ UNCHANGED <<users, tokens, ingredients, recipes, recipeSeq>>
    ELSE BaseOther("tag-list", method, tok)

TagOther(method, tok) == BaseOther("tag-list", method, tok)

IngredientList(tok, query) == BaseList("ingredient-list", ingredients, tok, query)

IngredientCreate(tok, payload) ==
    LET errs == NameErrors(payload)
    IN  /\ UNCHANGED <<users, tokens, tags, recipes, recipeSeq>>
        /\ IF ~IsAuthenticated(tok)
           THEN NotAuthenticated("ingredient-list", "POST", tok, 0, NoQuery, payload)
           ELSE IF errs # <<>>
           THEN /\ response' = Reply("ingredient-list", "POST", tok, 0, NoQuery, payload,
                                     400, ErrorBody(errs[1], errs[2]))
                /\ UNCHANGED ingredients
           ELSE /\ ingredients' = Append(ingredients, BaseCreateRow(payload, tok))
                /\ response' = Reply("ingredient-list", "POST", tok, 0, NoQuery, payload,
                                     201,
                                     [kind |-> "ingredient", id |-> Len(ingredients) + 1,
                                      name |-> payload.name])

IngredientOther(method, tok) == BaseOther("ingredient-list", method, tok)

----------------------------------------------------------------------------
(* Recipes: RecipeViewSet, recipe/views.py                                 *)

RecipeIds == DOMAIN recipes

\* str.split(',')
RECURSIVE Split(_)
Split(s) ==
    LET commas == {i \in 1..Len(s) : s[i] = ","}
        first  == CHOOSE i \in commas : \A j \in commas : i <= j
    IN  IF commas = {} THEN <<s>>
        ELSE <<SubSeq(s, 1, first - 1)>> \o Split(SubSeq(s, first + 1, Len(s)))

DigitValue(c) == CharCode(c) - CharCode("0")

IsDigit(c) == c \in {"0", "1", "2", "3"}

\* int(piece) raises ValueError unless the piece is a run of digits
IsInt(piece) == piece # <<>> /\ \A i \in 1..Len(piece) : IsDigit(piece[i])

RECURSIVE IntOf(_)
IntOf(piece) ==
    IF piece = <<>> THEN 0
    ELSE 10 * IntOf(SubSeq(piece, 1, Len(piece) - 1)) + DigitValue(piece[Len(piece)])

\* _params_to_int raises: some element of the split string is no integer
ParamsRaise(param) == \E i \in 1..Len(Split(param)) : ~IsInt(Split(param)[i])

\* _params_to_int converting the first element only
params_to_int_First(param) == {IntOf(Split(param)[1])}

\* _params_to_int: the integers of a comma separated string
params_to_int(param) == {IntOf(Split(param)[i]) : i \in 1..Len(Split(param))}

\* `if tags:` is false for an absent and for an empty parameter
Truthy(param) == param # None /\ param # <<>>

\* RecipeViewSet.get_queryset raises ValueError out of _params_to_int
QuerysetRaises(query) ==
    \/ Truthy(Get(query, "tags")) /\ ParamsRaise(query.tags)
    \/ Truthy(Get(query, "ingredients")) /\ ParamsRaise(query.ingredients)

\* the number of rows one filter(<relation>__id__in=ids) leaves of a recipe:
\* the join gives one row for each related row whose id is listed
JoinRows(related, param) ==
    IF Truthy(param) THEN Cardinality(related \cap params_to_int(param)) ELSE 1

\* get_queryset whose ingredients filter starts again from self.queryset,
\* so that it replaces the tags filter
get_queryset_LastFilter(user, query) ==
    LET n(id) == IF Truthy(Get(query, "ingredients"))
                 THEN JoinRows(recipes[id].ingredients, Get(query, "ingredients"))
                 ELSE JoinRows(recipes[id].tags, Get(query, "tags"))
        ids   == {id \in RecipeIds : recipes[id].user = user /\ n(id) > 0}
    IN  [id \in ids |-> n(id)]

\* get_queryset without its last line, filter(user=self.request.user)
get_queryset_AnyOwner(user, query) ==
    LET n(id) == JoinRows(recipes[id].tags, Get(query, "tags"))
                 * JoinRows(recipes[id].ingredients, Get(query, "ingredients"))
        ids   == {id \in RecipeIds : n(id) > 0}
    IN  [id \in ids |-> n(id)]

\* RecipeViewSet.get_queryset: how many result rows each recipe has, for the
\* recipes that have any
get_queryset(user, query) ==
    LET n(id) == JoinRows(recipes[id].tags, Get(query, "tags"))
                 * JoinRows(recipes[id].ingredients, Get(query, "ingredients"))
        ids   == {id \in RecipeIds : recipes[id].user = user /\ n(id) > 0}
    IN  [id \in ids |-> n(id)]

\* get_object over the model's queryset (Recipe.objects.all()) instead of
\* get_queryset()
get_object_AnyOwner(user, pk, query) ==
    IF QuerysetRaises(query) THEN "ValueError"
    ELSE IF pk \notin RecipeIds THEN "Http404"
    ELSE "ok"

\* GenericAPIView.get_object over get_queryset: queryset.get(pk=pk)
get_object(user, pk, query) ==
    LET qs == get_queryset(user, query)
    IN  IF QuerysetRaises(query) THEN "ValueError"
        ELSE IF pk \notin DOMAIN qs THEN "Http404"
        ELSE IF qs[pk] > 1 THEN "MultipleObjectsReturned"
        ELSE "ok"

NotFound(endpoint, method, tok, pk, query, payload) ==
    /\ response' = Reply(endpoint, method, tok, pk, query, payload, 404,
                         ErrorBody("detail", "not_found"))
    /\ UNCHANGED db

ServerError(endpoint, method, tok, pk, query, payload, exception) ==
    /\ response' = Reply(endpoint, method, tok, pk, query, payload, 500,
                         ErrorBody("exception", exception))
    /\ UNCHANGED db

\* the fields RecipeSerializer validates: title, time_minutes and price are
\* required unless the update is partial; listed tag and ingredient ids must
\* name existing rows
RecipeErrors(payload, partial) ==
    IF "title" \notin DOMAIN payload /\ ~partial THEN <<"title", "required">>
    ELSE IF "title" \in DOMAIN payload /\ payload.title = <<>> THEN <<"title", "blank">>
    ELSE IF "time_minutes" \notin DOMAIN payload /\ ~partial
         THEN <<"time_minutes", "required">>
    ELSE IF "price" \notin DOMAIN payload /\ ~partial THEN <<"price", "required">>
    ELSE IF "tags" \in DOMAIN payload /\ ~(payload.tags \subseteq 1..Len(tags))
         THEN <<"tags", "does_not_exist">>
    ELSE IF "ingredients" \in DOMAIN payload
            /\ ~(payload.ingredients \subseteq 1..Len(ingredients))
         THEN <<"ingredients", "does_not_exist">>
    ELSE <<>>

RecipeFields == {"title", "time_minutes", "price", "link", "tags", "ingredients"}

\* the row the serializer writes from a payload: a field the payload holds is
\* taken from it; a field it omits keeps its value, except that a full update
\* sets an omitted many-to-many field to the empty list
RecipeSerializerSave(row, payload, partial) ==
    [f \in DOMAIN row |->
        IF f \in RecipeFields /\ f \in DOMAIN payload THEN payload[f]
        ELSE IF f \in {"tags", "ingredients"} /\ ~partial THEN {}
        ELSE row[f]]

BlankRecipe ==
    [user |-> 0, title |-> <<>>, time_minutes |-> 0, price |-> 0, link |-> <<>>,
     tags |-> {}, ingredients |-> {}]

RecipeBody(id, row) ==
    [kind |-> "recipe", id |-> id, title |-> row.title,
     time_minutes |-> row.time_minutes, price |-> row.price, link |-> row.link,
     tags |-> row.tags, ingredients |-> row.ingredients]

\* GET /recipe/recipes/
RecipeList(tok, query) ==
    /\ UNCHANGED db
    /\ IF ~IsAuthenticated(tok)
       THEN NotAuthenticated("recipe-list", "GET", tok, 0, query, NoPayload)
       ELSE IF QuerysetRaises(query)
       THEN ServerError("recipe-list", "GET", tok, 0, query, NoPayload, "ValueError")
       ELSE response' = Reply("recipe-list", "GET", tok, 0, query, NoPayload,
                              200, [kind |-> "rows", rows |-> get_queryset(tok, query)])

\* perform_create calling serializer.save() without the user keyword
recipe_perform_create_NoUser(validated, user) == validated

\* RecipeViewSet.perform_create: serializer.save(user=request.user)
recipe_perform_create(validated, user) == [validated EXCEPT !.user = user]

\* POST /recipe/recipes/
RecipeCreate(tok, payload) ==
    LET errs == RecipeErrors(payload, FALSE)
        row  == recipe_perform_create(
                    RecipeSerializerSave(BlankRecipe, payload, FALSE), tok)
        id   == recipeSeq + 1
    IN  /\ UNCHANGED <<users, tokens, tags, ingredients>>
        /\ IF ~IsAuthenticated(tok)
           THEN NotAuthenticated("recipe-list", "POST", tok, 0, NoQuery, payload)
           ELSE IF errs # <<>>
           THEN /\ response' = Reply("recipe-list", "POST", tok, 0, NoQuery, payload,
                                     400, ErrorBody(errs[1], errs[2]))
                /\ UNCHANGED <<recipes, recipeSeq>>
           ELSE /\ recipeSeq' = id
                /\ recipes' = [i \in RecipeIds \cup {id} |->
                                  IF i = id THEN row ELSE recipes[i]]
                /\ response' = Reply("recipe-list", "POST", tok, 0, NoQuery, payload,
                                     201, RecipeBody(id, row))

\* GET /recipe/recipes/{pk}/
RecipeRetrieve(tok, pk, query) ==
    LET found == get_object(tok, pk, query)
    IN  /\ UNCHANGED db
        /\ IF ~IsAuthenticated(tok)
           THEN NotAuthenticated("recipe-detail", "GET", tok, pk, query, NoPayload)
           ELSE IF found = "Http404"
           THEN NotFound("recipe-detail", "GET", tok, pk, query, NoPayload)
           ELSE IF found # "ok"
           THEN ServerError("recipe-detail", "GET", tok, pk, query, NoPayload, found)
           ELSE response' = Reply("recipe-detail", "GET", tok, pk, query, NoPayload,
                                  200, RecipeBody(pk, recipes[pk]))

\* a viewset whose partial_update() forgets partial=True
IsPartial_Never(method) == FALSE

\* ModelViewSet: update() serves PUT, partial_update() serves PATCH and
\* passes partial=True to the serializer
IsPartial(method) == method = "PATCH"

\* PUT and PATCH /recipe/recipes/{pk}/
RecipeUpdate(method, tok, pk, query, payload) ==
    LET partial == IsPartial(method)
        found   == get_object(tok, pk, query)
        errs    == RecipeErrors(payload, partial)
        row     == RecipeSerializerSave(recipes[pk], payload, partial)
    IN  /\ UNCHANGED <<users, tokens, tags, ingredients, recipeSeq>>
        /\ IF ~IsAuthenticated(tok)
           THEN NotAuthenticated("recipe-detail", method, tok, pk, query, payload)
           ELSE IF found = "Http404"
           THEN NotFound("recipe-detail", method, tok, pk, query, payload)
           ELSE IF found # "ok"
           THEN ServerError("recipe-detail", method, tok, pk, query, payload, found)
           ELSE IF errs # <<>>
           THEN /\ response' = Reply("recipe-detail", method, tok, pk, query, payload,
                                     400, ErrorBody(errs[1], errs[2]))
                /\ UNCHANGED recipes
           ELSE /\ recipes' = [recipes EXCEPT ![pk] = row]
                /\ response' = Reply("recipe-detail", method, tok, pk, query, payload,
                                     200, RecipeBody(pk, row))

\* DELETE /recipe/recipes/{pk}/ : ModelViewSet brings DestroyModelMixin
RecipeDestroy(tok, pk, query) ==
    LET found == get_object(tok, pk, query)
    IN  /\ UNCHANGED <<users, tokens, tags, ingredients, recipeSeq>>
        /\ IF ~IsAuthenticated(tok)
           THEN NotAuthenticated("recipe-detail", "DELETE", tok, pk, query, NoPayload)
           ELSE IF found = "Http404"
           THEN NotFound("recipe-detail", "DELETE", tok, pk, query, NoPayload)
           ELSE IF found # "ok"
           THEN ServerError("recipe-detail", "DELETE", tok, pk, query, NoPayload, found)
           ELSE /\ recipes' = [i \in RecipeIds \ {pk} |-> recipes[i]]
                /\ response' = Reply("recipe-detail", "DELETE", tok, pk, query, NoPayload,
                                     204, EmptyBody)

\* POST /recipe/recipes/{pk}/upload-image/ : get_object, then the serializer
\* get_serializer_class names for the action.  Recipe has no image field and
\* core/models.py no upload path function, so a RecipeImageSerializer over
\* Recipe cannot build its image field (ImproperlyConfigured), and a
\* serializers module without it fails in get_serializer_class
\* (AttributeError): the view raises before is_valid returns, whatever the
\* payload holds
upload_image(tok, pk, query, payload) ==
    LET found == get_object(tok, pk, query)
    IN  /\ UNCHANGED db
        /\ IF ~IsAuthenticated(tok)
           THEN NotAuthenticated("recipe-upload-image", "POST", tok, pk, query, payload)
           ELSE IF found = "Http404"
           THEN NotFound("recipe-upload-image", "POST", tok, pk, query, payload)
           ELSE IF found # "ok"
           THEN ServerError("recipe-upload-image", "POST", tok, pk, query, payload, found)
           ELSE \E exception \in {"ImproperlyConfigured", "AttributeError"} :
                   ServerError("recipe-upload-image", "POST", tok, pk, query, payload,
                               exception)

----------------------------------------------------------------------------
(* The startup command: core/management/commands/wait_for_db.py            *)

Connecting  == "Connecting to database..."
Unavailable == "Database unavailable, waiting for 1 sec..."
Available   == "Database available!"

\* what evaluating connections['default'] can do: raise OperationalError
\* while the database is not reachable, or hand back the connection object;
\* Django builds that object without connecting, so it can be handed back
\* whatever the database does
ConnectionOutcomes == IF reachable THEN {"ok"} ELSE {"ok", "OperationalError"}

\* lines 12-13: the first line written, db_conn = None
Begin ==
    /\ pc = "begin"
    /\ stdout' = Append(stdout, Connecting)
    /\ db_conn' = None
    /\ pc' = "while"
    /\ UNCHANGED <<attempts, reachable, db, response>>

\* line 14: while not db_conn
While ==
    /\ pc = "while"
    /\ pc' = IF db_conn = None THEN "try" ELSE "report"
    /\ UNCHANGED <<db_conn, stdout, attempts, reachable, db, response>>

\* a loop body that leaves the loop when the attempt fails
TryConnection_GiveUp(outcome) ==
    /\ pc = "try"
    /\ attempts' = Append(attempts, outcome)
    /\ db_conn' = IF outcome = "ok" THEN <<"connection">> ELSE db_conn
    /\ pc' = IF outcome = "ok" THEN "while" ELSE "report"
    /\ UNCHANGED <<stdout, reachable, db, response>>

\* lines 15-18: the attempt; on OperationalError the line written before
\* the sleep
TryConnection(outcome) ==
    /\ pc = "try"
    /\ attempts' = Append(attempts, outcome)
    /\ IF outcome = "ok"
       THEN /\ db_conn' = <<"connection">>
            /\ pc' = "while"
            /\ UNCHANGED stdout
       ELSE /\ stdout' = Append(stdout, Unavailable)
            /\ pc' = "sleep"
            /\ UNCHANGED db_conn
    /\ UNCHANGED <<reachable, db, response>>

\* line 19: time.sleep(1) returns
Sleep ==
    /\ pc = "sleep"
    /\ pc' = "while"
    /\ UNCHANGED <<db_conn, stdout, attempts, reachable, db, response>>

\* line 21: the last line written, handle() returns
Report ==
    /\ pc = "report"
    /\ stdout' = Append(stdout, Available)
    /\ pc' = "done"
    /\ UNCHANGED <<db_conn, attempts, reachable, db, response>>

\* the database starts or stops accepting connections
DatabaseChanges ==
    /\ reachable' = ~reachable
    /\ UNCHANGED <<pc, db_conn, stdout, attempts, db, response>>

\* the command has run to its end before the first request is served
Started ==
    /\ pc = "done"
    /\ db_conn = <<"connection">>
    /\ stdout = <<Connecting, Available>>
    /\ attempts = <<"ok">>
    /\ reachable = TRUE

----------------------------------------------------------------------------
(* Inputs *)

EmailA    == <<"u", "@", "x", ".", "c">>
EmailB    == <<"v", "@", "x", ".", "c">>
Password1 == <<"p", "w", "1", "2", "3", "0", "1", "2">>
NameN     == <<"u">>

\* bearer tokens a request may carry: none (0), or the key of a user's token
Toks == 0..MaxUsers

\* the records holding at most the one field, with a value of `values`
Optional(field, values) == {NoPayload} \cup {[x \in {field} |-> v] : v \in values}

Merge(p, q) == [f \in DOMAIN p \cup DOMAIN q |-> IF f \in DOMAIN p THEN p[f] ELSE q[f]]

Product(P, Q) == {Merge(p, q) : p \in P, q \in Q}

\* a request without a token is refused whatever it carries: one is enough
For(tok, S, one) == IF tok \in tokens THEN S ELSE {one}

NamePayloads ==
    {[name |-> <<"a">>], [name |-> <<"a">>, user |-> 1], [name |-> <<>>]}

AssignedQueries == Optional("assigned_only", {<<"1">>})

\* filter strings that do not split into integers
MalformedFilters == {<<"a">>, <<"1", ",", ",", "2">>, <<"1", ",">>}

RecipeQueries ==
    Optional("tags", {<<"1">>, <<"1", ",", "2">>} \cup MalformedFilters)
    \cup Optional("ingredients", {<<"1">>, <<"1", ",">>})

FullRecipe(t) == [title |-> t, time_minutes |-> 5, price |-> 1284]

CreatePayloads ==
    Product({NoPayload, FullRecipe(<<"a">>), Merge(FullRecipe(<<"a">>), [user |-> 1])},
            Product(Optional("tags", {{1}, {1, 2}}), Optional("ingredients", {{1}})))

UpdatePayloads ==
    Product({NoPayload, FullRecipe(<<"a">>)}, Optional("tags", {{}, {2}}))

ImagePayloads ==
    Optional("image", {[decodes |-> TRUE, ext |-> ".jpg"],
                       [decodes |-> FALSE, ext |-> ".jpg"]})

Pks == 1..MaxRecipes

----------------------------------------------------------------------------
(* The resource API, with two accounts signed up and holding tokens (the   *)
(* state SpecUser reaches by two sign-ups and two token requests)          *)

NoResponse == Reply("none", "none", 0, 0, NoQuery, NoPayload, 0, EmptyBody)

TwoAccounts ==
    /\ users = <<NewUser(EmailA, Password1, NameN), NewUser(EmailB, Password1, NameN)>>
    /\ tokens = {1, 2}
    /\ tags = <<>>
    /\ ingredients = <<>>
    /\ recipes = [i \in {} |-> BlankRecipe]
    /\ recipeSeq = 0
    /\ response = NoResponse
    /\ Started

Next ==
    \/ /\ UNCHANGED command
       /\ \E tok \in Toks : \E q \in For(tok, AssignedQueries, NoQuery) : TagList(tok, q)
    \/ /\ UNCHANGED command
       /\ Len(tags) < MaxTags
       /\ \E tok \in Toks : \E p \in For(tok, NamePayloads, NoPayload) : TagCreate(tok, p)
    \/ /\ UNCHANGED command
       /\ \E tok \in Toks : TagOther("DELETE", tok)
    \/ /\ UNCHANGED command
       /\ \E tok \in Toks : \E q \in For(tok, AssignedQueries, NoQuery) :
          IngredientList(tok, q)
    \/ /\ UNCHANGED command
       /\ Len(ingredients) < MaxIngredients
       /\ \E tok \in Toks : \E p \in For(tok, NamePayloads, NoPayload) :
             IngredientCreate(tok, p)
    \/ /\ UNCHANGED command
       /\ \E tok \in Toks : IngredientOther("DELETE", tok)
    \/ /\ UNCHANGED command
       /\ \E tok \in Toks : \E q \in For(tok, RecipeQueries, NoQuery) : RecipeList(tok, q)
    \/ /\ UNCHANGED command
       /\ recipeSeq < MaxRecipes
       /\ \E tok \in Toks : \E p \in For(tok, CreatePayloads, NoPayload) :
             RecipeCreate(tok, p)
    \/ /\ UNCHANGED command
       /\ \E tok \in Toks, pk \in Pks :
          \E q \in For(tok, Optional("tags", {<<"1", ",", "2">>}), NoQuery) :
             RecipeRetrieve(tok, pk, q)
    \/ /\ UNCHANGED command
       /\ \E m \in {"PUT", "PATCH"}, tok \in Toks, pk \in Pks :
          \E p \in For(tok, UpdatePayloads, NoPayload) :
             RecipeUpdate(m, tok, pk, NoQuery, p)
    \/ /\ UNCHANGED command
       /\ \E tok \in Toks, pk \in Pks : RecipeDestroy(tok, pk, NoQuery)
    \/ /\ UNCHANGED command
       /\ \E tok \in Toks, pk \in Pks :
          \E p \in For(tok, ImagePayloads, NoPayload) :
             upload_image(tok, pk, NoQuery, p)

Spec == TwoAccounts /\ [][Next]_vars

----------------------------------------------------------------------------
(* Filtered recipe lists: the first account creates tags and an            *)
(* ingredient, both accounts create recipes that carry them and list the   *)
(* recipes under every combination of filters                              *)

FilterQueries ==
    Product(Optional("tags", {<<"1">>, <<"2">>, <<"1", ",", "2">>}),
            Optional("ingredients", {<<"1">>, <<"1", ",", "2">>}))

ListedPayloads ==
    Product({FullRecipe(<<"a">>)},
            Product(Optional("tags", SUBSET (1..MaxTags) \ {{}}),
                    Optional("ingredients", {{1}})))

NextFilter ==
    \/ /\ UNCHANGED command
       /\ Len(tags) < MaxTags /\ TagCreate(1, [name |-> <<"a">>])
    \/ /\ UNCHANGED command
       /\ Len(ingredients) < MaxIngredients /\ IngredientCreate(1, [name |-> <<"a">>])
    \/ /\ UNCHANGED command
       /\ recipeSeq < MaxListed
       /\ \E tok \in 1..MaxUsers, p \in ListedPayloads : RecipeCreate(tok, p)
    \/ /\ UNCHANGED command
       /\ \E tok \in 1..MaxUsers, q \in FilterQueries : RecipeList(tok, q)

SpecFilter == TwoAccounts /\ [][NextFilter]_vars

----------------------------------------------------------------------------
(* The token gate: accounts sign up and ask for tokens while requests with *)
(* and without a token reach every route                                   *)

Init ==
    /\ users = <<>>
    /\ tokens = {}
    /\ tags = <<>>
    /\ ingredients = <<>>
    /\ recipes = [i \in {} |-> BlankRecipe]
    /\ recipeSeq = 0
    /\ response = NoResponse
    /\ Started

Credentials(emails, passwords) ==
    {[email |-> e, password |-> pw] : e \in emails, pw \in passwords}

NextAuth ==
    \/ /\ UNCHANGED command
       /\ Len(users) < MaxUsers
       /\ \E c \in Credentials({EmailA, EmailB}, {Password1}) :
             CreateUser(Merge(c, [name |-> NameN]))
    \/ /\ UNCHANGED command
       /\ \E c \in Credentials({EmailA, EmailB}, {Password1}) : CreateToken(c)
    \/ /\ UNCHANGED command
       /\ \E tok \in Toks : ManageUser("GET", tok, NoPayload)
    \/ /\ UNCHANGED command
       /\ \E tok \in Toks : ManageUser("PATCH", tok, [name |-> <<"w">>])
    \/ /\ UNCHANGED command
       /\ \E tok \in Toks : TagList(tok, NoQuery)
    \/ /\ UNCHANGED command
       /\ Len(tags) < MaxTags /\ \E tok \in Toks : TagCreate(tok, [name |-> <<"a">>])
    \/ /\ UNCHANGED command
       /\ \E tok \in Toks : TagOther("DELETE", tok)
    \/ /\ UNCHANGED command
       /\ \E tok \in Toks : IngredientList(tok, NoQuery)
    \/ /\ UNCHANGED command
       /\ Len(ingredients) < MaxIngredients
       /\ \E tok \in Toks : IngredientCreate(tok, [name |-> <<"a">>])
    \/ /\ UNCHANGED command
       /\ \E tok \in Toks : IngredientOther("DELETE", tok)
    \/ /\ UNCHANGED command
       /\ \E tok \in Toks : RecipeList(tok, NoQuery)
    \/ /\ UNCHANGED command
       /\ recipeSeq < MaxRecipes
       /\ \E tok \in Toks : RecipeCreate(tok, FullRecipe(<<"a">>))
    \/ /\ UNCHANGED command
       /\ \E tok \in Toks, pk \in Pks : RecipeRetrieve(tok, pk, NoQuery)
    \/ /\ UNCHANGED command
       /\ \E m \in {"PUT", "PATCH"}, tok \in Toks, pk \in Pks :
          RecipeUpdate(m, tok, pk, NoQuery, FullRecipe(<<"a">>))
    \/ /\ UNCHANGED command
       /\ \E tok \in Toks, pk \in Pks : RecipeDestroy(tok, pk, NoQuery)
    \/ /\ UNCHANGED command
       /\ \E tok \in Toks, pk \in Pks :
          upload_image(tok, pk, NoQuery, [image |-> [decodes |-> TRUE, ext |-> ".jpg"]])

SpecAuth == Init /\ [][NextAuth]_vars

----------------------------------------------------------------------------
(* Accounts: sign-up, the manager's two entry points, token requests and   *)
(* the profile route, over emails in every case and passwords good and bad *)

EmailUpperDomain == <<"u", "@", "X", ".", "C">>
EmailUpperLocal  == <<"U", "@", "x", ".", "c">>
Password2        == <<"p", "w", "1", "2", "3", "0", "1", "3">>
PasswordShort    == <<"p", "w">>

EmailNoAt        == <<"U", "X">>

Emails == {EmailA, EmailUpperDomain, EmailUpperLocal, <<>>}

SignupPayloads ==
    {Merge(c, [name |-> NameN]) :
        c \in Credentials(Emails, {Password1, PasswordShort, <<>>})}
    \cup {[email |-> EmailA, password |-> Password1]}

TokenPayloads ==
    Credentials(Emails, {Password1, Password2, <<>>}) \cup {[email |-> EmailA]}

ProfilePayloads ==
    {[name |-> <<"w">>], [password |-> Password2], [password |-> PasswordShort],
     [email |-> EmailUpperDomain]}

NextUser ==
    \/ /\ UNCHANGED command
       /\ Len(users) < MaxUsers /\ \E p \in SignupPayloads : CreateUser(p)
    \/ /\ UNCHANGED command
       /\ Len(users) < MaxUsers
       /\ \E e \in Emails \cup {EmailNoAt} : CreateUserDirect(e, Password1, NameN)
    \/ /\ UNCHANGED command
       /\ Len(users) < MaxUsers
       /\ \E e \in Emails : CreateSuperuser(e, Password1)
    \/ /\ UNCHANGED command
       /\ \E p \in TokenPayloads : CreateToken(p)
    \/ /\ UNCHANGED command
       /\ \E tok \in Toks : ManageUser("GET", tok, NoPayload)
    \/ /\ UNCHANGED command
       /\ \E tok \in Toks : \E p \in For(tok, ProfilePayloads, NoPayload) :
          ManageUser("PATCH", tok, p)
    \/ /\ UNCHANGED command
       /\ \E tok \in Toks : ManageUser("POST", tok, NoPayload)

SpecUser == Init /\ [][NextUser]_vars

----------------------------------------------------------------------------
(* Creates, valid and invalid: sign-ups, calls of the manager with empty   *)
(* and non-empty emails under every password and name, tag and ingredient  *)
(* creates with and without a name                                         *)

NextCreate ==
    \/ /\ UNCHANGED command
       /\ Len(users) < MaxUsers
       /\ \E c \in Credentials({EmailA, EmailB}, {Password1, PasswordShort}) :
             CreateUser(Merge(c, [name |-> NameN]))
    \/ /\ UNCHANGED command
       /\ Len(users) < MaxUsers
       /\ \E e \in {EmailA, <<>>}, pw \in {Password1, PasswordShort, <<>>},
             n \in {NameN, <<>>} : CreateUserDirect(e, pw, n)
    \/ /\ UNCHANGED command
       /\ Len(users) < MaxUsers
       /\ \E e \in {EmailB, <<>>}, pw \in {Password1, <<>>} : CreateSuperuser(e, pw)
    \/ /\ UNCHANGED command
       /\ \E c \in Credentials({EmailA, EmailB}, {Password1}) : CreateToken(c)
    \/ /\ UNCHANGED command
       /\ Len(tags) < MaxTags
       /\ \E tok \in Toks : \E p \in For(tok, NamePayloads, NoPayload) : TagCreate(tok, p)
    \/ /\ UNCHANGED command
       /\ Len(ingredients) < MaxIngredients
       /\ \E tok \in Toks : \E p \in For(tok, NamePayloads, NoPayload) :
             IngredientCreate(tok, p)

SpecCreate == Init /\ [][NextCreate]_vars

----------------------------------------------------------------------------
(* The startup command running against a database that comes and goes,     *)
(* before any request is served                                            *)

InitWait ==
    /\ users = <<>>
    /\ tokens = {}
    /\ tags = <<>>
    /\ ingredients = <<>>
    /\ recipes = [i \in {} |-> BlankRecipe]
    /\ recipeSeq = 0
    /\ response = NoResponse
    /\ pc = "begin"
    /\ db_conn = None
    /\ stdout = <<>>
    /\ attempts = <<>>
    /\ reachable \in BOOLEAN

Failures == Cardinality({i \in 1..Len(attempts) : attempts[i] # "ok"})

\* one evaluation of the loop body, its failures counted up to the bound
Try ==
    \E outcome \in ConnectionOutcomes :
       /\ outcome # "ok" => Failures < MaxAttempts
       /\ TryConnection(outcome)

HandleStep == Begin \/ While \/ Try \/ Sleep \/ Report

NextWait ==
    \/ Begin
    \/ While
    \/ Try
    \/ Sleep
    \/ Report
    \/ DatabaseChanges

\* the process that runs handle() is not held back for ever
SpecWait == InitWait /\ [][NextWait]_vars /\ WF_vars(HandleStep)

----------------------------------------------------------------------------
(* Properties of the resource API                                          *)

ListOk(endpoint) ==
    response.endpoint = endpoint /\ response.method = "GET" /\ response.status = 200

\* the other of the two accounts
Other(u) == 3 - u

\* C1: a tag, ingredient or recipe list answered to a user holds no record
\* owned by anyone else, whatever filter the request names
C1_ListsHoldOwnRecords ==
    /\ ListOk("tag-list") =>
          \A i \in 1..Len(response.body.rows) :
             tags[response.body.rows[i]].user = response.tok
    /\ ListOk("ingredient-list") =>
          \A i \in 1..Len(response.body.rows) :
             ingredients[response.body.rows[i]].user = response.tok
    /\ ListOk("recipe-list") =>
          \A id \in DOMAIN response.body.rows : recipes[id].user = response.tok

\* a recipe list filtered by the other user's tag, which the other user's
\* recipe carries, answered without that recipe
C1_Witness ==
    /\ ListOk("recipe-list")
    /\ Truthy(Get(response.query, "tags"))
    /\ \E id \in RecipeIds, t \in 1..Len(tags) :
          /\ recipes[id].user = Other(response.tok)
          /\ tags[t].user = Other(response.tok)
          /\ t \in recipes[id].tags
          /\ t \in params_to_int(response.query.tags)
          /\ id \notin DOMAIN response.body.rows

Created(endpoint) ==
    response.endpoint = endpoint /\ response.method = "POST" /\ response.status = 201

\* the owner of the record a create request has just made is the user of the
\* request's token
CreatedForCaller ==
    /\ Created("tag-list") => tags[response.body.id].user = response.tok
    /\ Created("ingredient-list") => ingredients[response.body.id].user = response.tok
    /\ Created("recipe-list") => recipes[response.body.id].user = response.tok

\* no step changes the owner of a record that exists before and after it
OwnersKept ==
    /\ \A i \in 1..Len(tags) : i <= Len(tags') => tags'[i].user = tags[i].user
    /\ \A i \in 1..Len(ingredients) :
          i <= Len(ingredients') => ingredients'[i].user = ingredients[i].user
    /\ \A id \in DOMAIN recipes :
          id \in DOMAIN recipes' => recipes'[id].user = recipes[id].user

\* C2: a record's owner is the user authenticated on the request that created
\* it, whatever owner the payload names, and no later request changes it
C2_OwnerIsCreator == [][CreatedForCaller' /\ OwnersKept]_vars

\* a recipe created by a request whose payload names the other user as owner
C2_Witness ==
    /\ Created("recipe-list")
    /\ "user" \in DOMAIN response.payload
    /\ response.payload.user # response.tok
    /\ recipes[response.body.id].user = response.tok

NotFoundReply == response'.status = 404 /\ response'.body = ErrorBody("detail", "not_found")

\* the requests C4 is about: retrieve, PUT, PATCH on the detail route and POST
\* on the upload-image route, carrying a valid token
DetailRequest(r) ==
    /\ \/ r.endpoint = "recipe-detail" /\ r.method \in {"GET", "PUT", "PATCH"}
       \/ r.endpoint = "recipe-upload-image" /\ r.method = "POST"
    /\ r.tok \in tokens

\* C4: such a request for a recipe of another user is answered exactly as one
\* for an id that names no recipe, 404 not found, and changes no recipe
C4_ForeignIsNotFound ==
    [][DetailRequest(response')
       /\ (response'.pk \notin DOMAIN recipes
           \/ recipes[response'.pk].user # response'.tok)
       => NotFoundReply /\ recipes' = recipes]_vars

\* a PATCH naming new tags for the other user's recipe, answered 404
C4_Witness ==
    /\ response.endpoint = "recipe-detail" /\ response.method = "PATCH"
    /\ response.status = 404
    /\ "tags" \in DOMAIN response.payload
    /\ response.pk \in RecipeIds
    /\ recipes[response.pk].user = Other(response.tok)
    /\ recipes[response.pk].tags # response.payload.tags

\* the records of a table that a recipe of their owner refers to
Assigned(table, relation, user) ==
    {i \in 1..Len(table) :
        /\ table[i].user = user
        /\ \E id \in RecipeIds : recipes[id].user = user /\ i \in recipes[id][relation]}

AssignedOnlyList(endpoint, table, relation) ==
    ListOk(endpoint) /\ Get(response.query, "assigned_only") = <<"1">> =>
        /\ {response.body.rows[i] : i \in 1..Len(response.body.rows)}
              = Assigned(table, relation, response.tok)
        /\ Len(response.body.rows) = Cardinality(Assigned(table, relation, response.tok))

\* C5: a list with assigned_only=1 holds exactly the caller's records that a
\* recipe of the caller refers to, each once
C5_AssignedOnly ==
    /\ AssignedOnlyList("tag-list", tags, "tags")
    /\ AssignedOnlyList("ingredient-list", ingredients, "ingredients")

Updated(method) ==
    /\ response'.endpoint = "recipe-detail" /\ response'.method = method
    /\ response'.status = 200

\* C8: a PUT without tags leaves the recipe no tag, a PATCH without tags
\* leaves its tags as they were, a PATCH with tags leaves exactly those
C8_UpdateOfTags ==
    [][/\ Updated("PUT") /\ "tags" \notin DOMAIN response'.payload
          => recipes'[response'.pk].tags = {}
       /\ Updated("PATCH") /\ "tags" \notin DOMAIN response'.payload
          => recipes'[response'.pk].tags = recipes[response'.pk].tags
       /\ Updated("PATCH") /\ "tags" \in DOMAIN response'.payload
          => recipes'[response'.pk].tags = response'.payload.tags]_vars

\* a PATCH without tags answered 200 for a recipe that has tags
C8_Witness ==
    /\ response.endpoint = "recipe-detail" /\ response.method = "PATCH"
    /\ response.status = 200
    /\ "tags" \notin DOMAIN response.payload
    /\ recipes[response.pk].tags # {}

\* the rows of the tag and ingredient tables stay as they are
NamedRowsKept ==
    /\ Len(tags') >= Len(tags) /\ SubSeq(tags', 1, Len(tags)) = tags
    /\ Len(ingredients') >= Len(ingredients)
    /\ SubSeq(ingredients', 1, Len(ingredients)) = ingredients

----------------------------------------------------------------------------
(* Properties of the filtered recipe list                                  *)

\* the ids a filter string of FilterQueries lists
ListedIds(param) ==
    CASE param = <<"1">> -> {1}
      [] param = <<"2">> -> {2}
      [] param = <<"1", ",", "2">> -> {1, 2}

Filtered(field) == field \in DOMAIN response.query

Matches(id, field) == recipes[id][field] \cap ListedIds(response.query[field]) # {}

Mine(id) == recipes[id].user = response.tok

\* C6: a recipe list filtered by tags alone holds exactly the caller's
\* recipes that carry one of the listed tags, and likewise for ingredients
C6_OneFilter ==
    /\ ListOk("recipe-list") /\ Filtered("tags") /\ ~Filtered("ingredients") =>
          DOMAIN response.body.rows = {id \in RecipeIds : Mine(id) /\ Matches(id, "tags")}
    /\ ListOk("recipe-list") /\ Filtered("ingredients") /\ ~Filtered("tags") =>
          DOMAIN response.body.rows
             = {id \in RecipeIds : Mine(id) /\ Matches(id, "ingredients")}

\* tags=1,2 answered with one recipe that carries tag 1 only and another that
\* carries tag 2 only
C6_Witness ==
    /\ ListOk("recipe-list") /\ ~Filtered("ingredients")
    /\ Get(response.query, "tags") = <<"1", ",", "2">>
    /\ \E a, b \in DOMAIN response.body.rows :
          recipes[a].tags = {1} /\ recipes[b].tags = {2}

\* C7: with both filters, a recipe is listed if and only if it is the
\* caller's, carries a listed tag and carries a listed ingredient
C7_BothFilters ==
    ListOk("recipe-list") /\ Filtered("tags") /\ Filtered("ingredients") =>
        DOMAIN response.body.rows
           = {id \in RecipeIds :
                 Mine(id) /\ Matches(id, "tags") /\ Matches(id, "ingredients")}

\* both filters given: one recipe of the caller passes both, another carries
\* a listed tag but no listed ingredient and is left out
C7_Witness ==
    /\ ListOk("recipe-list") /\ Filtered("tags") /\ Filtered("ingredients")
    /\ \E a, b \in RecipeIds :
          /\ Mine(a) /\ a \in DOMAIN response.body.rows
          /\ Mine(b) /\ b \notin DOMAIN response.body.rows
          /\ Matches(b, "tags") /\ ~Matches(b, "ingredients")

----------------------------------------------------------------------------
(* Properties of the token gate                                            *)

ProtectedEndpoints ==
    {"tag-list", "ingredient-list", "recipe-list", "recipe-detail",
     "recipe-upload-image", "user-me"}

\* C3: a request to a tag, ingredient, recipe or profile route whose token
\* names no Token row is answered 401 with the gate's error and changes no
\* stored row; a request without a valid token that is answered otherwise
\* is a sign-up or a token request
C3_TokenRequired ==
    [][/\ response'.endpoint \in ProtectedEndpoints /\ response'.tok \notin tokens
          => /\ response'.status = 401
             /\ response'.body.kind = "error" /\ response'.body.field = "detail"
             /\ UNCHANGED db
       /\ response'.tok \notin tokens /\ response'.status # 401
          => response'.endpoint \in {"user-create", "user-token"}]_vars

\* a DELETE of an existing recipe, sent with the key of an account that
\* holds no token, answered 401 with the recipe still there
C3_Witness ==
    /\ response.endpoint = "recipe-detail" /\ response.method = "DELETE"
    /\ response.status = 401
    /\ response.tok \in 1..Len(users) /\ response.tok \notin tokens
    /\ response.pk \in RecipeIds

----------------------------------------------------------------------------
(* Properties of the accounts                                              *)

\* C10: a token request that follows a successful sign-up and carries the
\* email and password the sign-up carried is answered 200 with the token of
\* the user whose stored email is the normalized form of that email
C10_SignupThenToken ==
    [][/\ response.endpoint = "user-create" /\ response.status = 201
       /\ response'.endpoint = "user-token"
       /\ response'.payload = [email    |-> response.payload.email,
                               password |-> response.payload.password]
       => /\ response'.status = 200
          /\ users'[response'.body.token].email
                = normalize_email(response.payload.email)]_vars

\* a token request with an email and a password that names no stored user
\* with that email and that password
FailedLogin(r) ==
    /\ r.endpoint = "user-token"
    /\ DOMAIN r.payload = {"email", "password"}
    /\ r.payload.email # <<>>
    /\ \A i \in 1..Len(users) :
          ~(/\ users[i].email = r.payload.email
            /\ users[i].password = make_password(r.payload.password))

AuthenticationError == ErrorBody("non_field_errors", "authentication")

\* C11 as stated: a token request failing for a wrong password, an unknown
\* email or a blank password issues no token and is answered with the one
\* authentication error
C11_OneAuthenticationError ==
    [][FailedLogin(response')
       => /\ tokens' = tokens
          /\ response'.status = 400
          /\ response'.body = AuthenticationError]_vars

\* C11 as the code has it: such a request issues no token and is answered
\* 400 with a body fixed by the payload alone: the authentication error when
\* the password is not blank, whether the email is unknown or the password
\* wrong, and the password field's blank error when it is blank, whether or
\* not the email is known
C11_ErrorFixedByPayload ==
    [][FailedLogin(response')
       => /\ tokens' = tokens
          /\ response'.status = 400
          /\ response'.body = IF response'.payload.password = <<>>
                               THEN ErrorBody("password", "blank")
                               ELSE AuthenticationError]_vars

\* a wrong password for a stored email, answered with the authentication
\* error, while that user holds no token
C11_Witness ==
    /\ response.endpoint = "user-token" /\ response.status = 400
    /\ response.body = AuthenticationError
    /\ DOMAIN response.payload = {"email", "password"}
    /\ \E i \in 1..Len(users) :
          /\ users[i].email = response.payload.email
          /\ users[i].password # make_password(response.payload.password)
          /\ i \notin tokens

\* a stored password that carries the hasher's prefix
IsHash(stored) == Len(stored) > 0 /\ stored[1] = "pbkdf2$"

\* the request just answered has set the password of user i
PasswordSet(r, i) ==
    /\ "password" \in DOMAIN r.payload
    /\ \/ r.endpoint = "user-create" /\ r.status = 201 /\ i = Len(users')
       \/ r.endpoint = "user-me" /\ r.method = "PATCH" /\ r.status = 200 /\ i = r.tok

\* C12: after every step each stored password is a hash and not the
\* plaintext, the password a sign-up or a PATCH of the profile has just set
\* verifies against the stored value, and the response body holds no password
C12_PasswordsHashed ==
    [][/\ \A i \in 1..Len(users') :
             /\ IsHash(users'[i].password)
             /\ PasswordSet(response', i) =>
                   /\ users'[i].password # response'.payload.password
                   /\ users'[i].password = make_password(response'.payload.password)
       /\ "password" \notin DOMAIN response'.body]_vars

\* a sign-up whose email is that of a stored user, as given or in the form
\* create_user stores it
SignupOfStoredEmail(r) ==
    /\ r.endpoint = "user-create"
    /\ "email" \in DOMAIN r.payload
    /\ \E i \in 1..Len(users) :
          users[i].email \in {r.payload.email, normalize_email(r.payload.email)}

\* C13: no two stored users share an email, and a sign-up whose email is that
\* of a stored user is answered 400 and adds no record
C13_UniqueEmails ==
    [][/\ \A i, j \in 1..Len(users') : i # j => users'[i].email # users'[j].email
       /\ SignupOfStoredEmail(response')
          => response'.status = 400 /\ users' = users]_vars

\* the position of the last '@' of an email, 0 when it has none
AtOf(email) ==
    IF \E i \in 1..Len(email) : email[i] = "@"
    THEN CHOOSE i \in 1..Len(email) :
            email[i] = "@" /\ \A j \in (i + 1)..Len(email) : email[j] # "@"
    ELSE 0

\* the characters of an email that make up its domain part
DomainOf(email) == IF AtOf(email) = 0 THEN {} ELSE (AtOf(email) + 1)..Len(email)

\* an email whose domain part holds no upper-case letter
IsNormalized(email) == \A i \in DomainOf(email) : email[i] \notin {"U", "X", "C"}

\* C14: the email stored for a new account has the domain part of the given
\* email in lower case, is the given email when that was already
\* normalized, and is left as it is by normalizing it again
C14_NormalizedOnCreate ==
    [][Len(users') = Len(users) + 1 =>
          LET given  == response'.payload.email
              stored == users'[Len(users')].email
          IN  /\ Len(stored) = Len(given)
              /\ \A i \in DomainOf(given) : stored[i] = LowerChar(given[i])
              /\ IsNormalized(stored)
              /\ IsNormalized(given) => stored = given
              /\ normalize_email(stored) = stored]_vars

\* an account created from an email with an upper-case domain, stored with
\* the domain in lower case and the local part as given
C14_Witness ==
    /\ response.endpoint \in {"user-create", "create_user", "create_superuser"}
    /\ response.status \in {0, 201}
    /\ ~IsNormalized(response.payload.email)
    /\ users[Len(users)].email # response.payload.email
    /\ IsNormalized(users[Len(users)].email)
    /\ \E i \in 1..Len(users) :
          users[i].email = EmailUpperLocal /\ normalize_email(users[i].email) = EmailUpperLocal

----------------------------------------------------------------------------
(* Properties of the creates                                               *)

Raised(r, exception) ==
    r.status = 500 /\ r.body = ErrorBody("exception", exception)

NothingStored == users' = users /\ tags' = tags /\ ingredients' = ingredients

\* C15: a call of create_user or create_superuser with an empty email raises
\* ValueError whatever else it is given, a sign-up whose password has fewer
\* than 8 characters is answered 400, a tag or ingredient create with an
\* empty name is answered 400, and each leaves the stored users, tags and
\* ingredients as they were
C15_InvalidCreateStoresNothing ==
    [][/\ /\ response'.endpoint \in {"create_user", "create_superuser"}
          /\ response'.payload.email = <<>>
          => Raised(response', "ValueError") /\ NothingStored
       /\ /\ response'.endpoint = "user-create"
          /\ "password" \in DOMAIN response'.payload
          /\ Len(response'.payload.password) < 8
          => response'.status = 400 /\ NothingStored
       /\ /\ response'.endpoint \in {"tag-list", "ingredient-list"}
          /\ response'.method = "POST"
          /\ response'.tok \in tokens
          /\ Get(response'.payload, "name") = <<>>
          => response'.status = 400 /\ NothingStored]_vars

\* create_user called with an empty email, a password and no name, raising
\* while a user and a tag are stored
C15_Witness ==
    /\ response.endpoint = "create_user"
    /\ response.payload.email = <<>>
    /\ response.payload.password = PasswordShort
    /\ response.payload.name = <<>>
    /\ Raised(response, "ValueError")
    /\ Len(users) = 1 /\ Len(tags) > 0

----------------------------------------------------------------------------
(* Properties of the image upload                                          *)

\* an upload-image request of the owner of the recipe it names
OwnersUpload(r) ==
    /\ r.endpoint = "recipe-upload-image" /\ r.method = "POST"
    /\ r.tok \in tokens
    /\ r.pk \in DOMAIN recipes
    /\ recipes[r.pk].user = r.tok

Decodable(payload) == "image" \in DOMAIN payload /\ payload.image.decodes

\* C16: the owner's upload of a payload that is no decodable image is
\* answered 400 and leaves the recipe as it was; the owner's upload of a
\* decodable image is answered 200 and leaves that recipe, and no other,
\* with an image
C16_UploadImage ==
    [][OwnersUpload(response') =>
          IF Decodable(response'.payload)
          THEN /\ response'.status = 200
               /\ "image" \in DOMAIN recipes'[response'.pk]
               /\ \A id \in DOMAIN recipes \ {response'.pk} : recipes'[id] = recipes[id]
          ELSE /\ response'.status = 400
               /\ recipes' = recipes]_vars

----------------------------------------------------------------------------
(* Properties of the startup command                                       *)

Succeeded == \E i \in 1..Len(attempts) : attempts[i] = "ok"

Reported == \E i \in 1..Len(stdout) : stdout[i] = Available

\* 'Database available!' is written, and handle() returns, only after an
\* attempt that succeeded, and the last attempt made is that one
ReportsAfterSuccess ==
    (Reported \/ pc = "done") => Succeeded /\ attempts[Len(attempts)] = "ok"

\* an attempt that raises OperationalError is followed by the line written
\* before the wait, then by the wait, and the wait by the next attempt
RetriesAfterFailure ==
    /\ Len(attempts') > Len(attempts) /\ attempts'[Len(attempts')] # "ok"
       => pc' = "sleep" /\ stdout' = Append(stdout, Unavailable)
    /\ pc = "sleep" /\ pc' # pc => pc' = "while" /\ db_conn' = None
    /\ pc = "while" /\ db_conn = None /\ pc' # pc => pc' = "try"

----------------------------------------------------------------------------
(* Properties of the filtered recipe list, continued                       *)

\* C18: a recipe list filtered by tags or by ingredients holds each recipe
\* it lists exactly once, however many of the listed ids the recipe carries
C18_ListedOnce ==
    ListOk("recipe-list") /\ (Filtered("tags") \/ Filtered("ingredients")) =>
        \A id \in DOMAIN response.body.rows : response.body.rows[id] = 1

----------------------------------------------------------------------------
(* Properties of the outcomes                                              *)

\* a recipe list request with a valid token whose tags or ingredients
\* filter holds an element that is no integer
MalformedList(r) ==
    /\ r.endpoint = "recipe-list" /\ r.method = "GET"
    /\ r.tok \in tokens
    /\ \/ Get(r.query, "tags") \in {<<"a">>, <<"1", ",", ",", "2">>, <<"1", ",">>}
       \/ Get(r.query, "ingredients") \in {<<"a">>, <<"1", ",", ",", "2">>, <<"1", ",">>}

\* C19: a recipe list request with a malformed filter is answered 400, and
\* every request is answered 200, 201, 400, 401, 404 or 405
C19_DefinedOutcomes ==
    /\ MalformedList(response) => response.status = 400
    /\ response.endpoint # "none" => response.status \in {200, 201, 400, 401, 404, 405}

=============================================================================
